---- MODULE Spec2Model ----
(***************************************************************************)
(* The DHT state-slice reducer of holochain-rust (core/src/dht/            *)
(* dht_reducers.rs) as a state machine.  One step is one call of reduce    *)
(* on the current snapshot; the content storage, the network facade and    *)
(* the context's DNA are collaborators whose outcomes are inputs.          *)
(*                                                                         *)
(* Three specifications share the state:                                   *)
(*   Spec      any sequence of actions reduced on one store                *)
(*   LoopSpec  two dispatchers committing one address through the action   *)
(*             loop, which reduces one queued action at a time             *)
(*   ApiSpec   the calls on the Holochain API object (core_api/src/lib.rs) *)
(***************************************************************************)
EXTENDS Integers, Sequences, FiniteSets, TLC

\* Number of new snapshots (Arc::new) allocated before the run stops.
MaxSnapshots == 3

\* Number of distinct entries of the publishable application type.
MaxValue == 2

(***************************************************************************)
(* Entries, entry types, addresses, content                                *)
(***************************************************************************)

\* EntryType: two system types and three application type names.
SysTypes == {"%agent_id", "%dna"}
AppTypes == {"testEntryType", "privateType", "unknownType"}
EntryTypes == SysTypes \cup AppTypes

\* EntryType::is_sys: every type that is not an application type.
is_sys(entry_type) == entry_type \notin AppTypes

\* EntryType::can_publish: the fixed per-type rule; the DNA entry is the
\* unpublishable one (test_unpublishable_entry).
can_publish(entry_type) == entry_type # "%dna"

\* Sharing::can_publish of an entry type definition.
sharing_can_publish(sharing) == sharing # "private"

\* Entry: the agent id entry, the DNA entry, one entry each of the private
\* and of the undefined application type, and MaxValue entries of the
\* public application type.
Entry ==
    [entry_type : EntryTypes \ {"testEntryType"}, value : {1}]
      \cup [entry_type : {"testEntryType"}, value : 1..MaxValue]

\* Position of a type in the address computation.
TypeCode(entry_type) ==
    CASE entry_type = "%agent_id"     -> 1
      [] entry_type = "%dna"          -> 2
      [] entry_type = "testEntryType" -> 3
      [] entry_type = "privateType"   -> 4
      [] entry_type = "unknownType"   -> 5

\* AddressableContent::content: the serialized entry.
content(entry) == <<entry.entry_type, entry.value>>

\* Entry::from_content: deserialization of a content.
from_content(c) == [entry_type |-> c[1], value |-> c[2]]

\* AddressableContent::address: a pure, collision-free function of the
\* entry's type and content.
address(entry) == TypeCode(entry.entry_type) * (MaxValue + 1) + entry.value

Addresses == {address(e) : e \in Entry}
Contents == {content(e) : e \in Entry}

\* The empty slot of the content storage.
NoContent == <<>>

(***************************************************************************)
(* Context: the DNA the nucleus holds, if any                              *)
(***************************************************************************)

\* context.state() is None, nucleus().dna() is None, or a DNA is loaded.
Contexts == {"NoState", "NoDna", "Dna"}

\* Dna::get_entry_type_def of the loaded DNA: the sharing of the type's
\* definition, or "none".
get_entry_type_def(type_name) ==
    CASE type_name = "testEntryType" -> "public"
      [] type_name = "privateType"   -> "private"
      [] OTHER                       -> "none"

(***************************************************************************)
(* Actions                                                                 *)
(***************************************************************************)

\* Action variants the DHT slice can be handed; "InitApplication" stands
\* for every variant that belongs to another state slice.
ActionWrappers ==
    [entry : Entry, action : {"Commit"}]
      \cup [address : Addresses, action : {"GetEntry"}]
      \cup [action : {"AddLink", "GetLinks"}, link : Addresses]
      \cup [action : {"InitApplication"}]

(***************************************************************************)
(* Outcomes of the external collaborators during one reduction             *)
(***************************************************************************)

\* contains: Ok or Err; add: Ok or Err; network get: None ({}) or
\* Some(content) ({content}).
Outcomes ==
    [contains : {"ok", "err"}, add : {"ok", "err"},
     get : {{}} \cup {{c} : c \in Contents}]

VARIABLES
    dht,             \* the current snapshot: the Arc<DhtStore> the state holds
    content_storage, \* the storage behind every snapshot's CAS handle
    published,       \* entries handed to Network::publish, in call order
    panicked,        \* the reducing thread has panicked
    last,            \* the last reduce call: its input, what it called, its result
    channel,         \* the action channel: dispatchers whose action waits
    dispatched,      \* per dispatcher: its action and what its reduction did
    app,             \* "none", or "instantiated": Holochain::new returned Ok(app)
    active,          \* Holochain.active
    instance,        \* Holochain.instance: its nucleus and the calls it executed
    logger,          \* the messages logged through the context
    last_call        \* the last API call: the state it found, what it returned

\* The state the reducer works on.
dht_vars == <<dht, content_storage, published, panicked, last>>

\* The state of the action loop in front of the reducer.
loop_vars == <<channel, dispatched>>

\* The state of the Holochain API object (core_api).
api_vars == <<app, active, instance, logger, last_call>>

vars == <<dht_vars, loop_vars, api_vars>>

\* ContentAddressableStorage::contains on the storage.
contains(cas, a) == cas[a] # NoContent

\* ContentAddressableStorage::add on the storage.
add(cas, entry) == [cas EXCEPT ![address(entry)] = content(entry)]

\* ContentAddressableStorage::fetch: the set holding the entry stored under
\* a (Some), or the empty set (None).
fetch(cas, a) == IF contains(cas, a) THEN {from_content(cas[a])} ELSE {}

\* The set of addresses the storage holds.
StoredAddresses(cas) == {a \in Addresses : contains(cas, a)}

\* The storage of a new store: it holds nothing.
EmptyStorage == [a \in Addresses |-> NoContent]

\* Variant in which DhtStore::clone copies the storage: the store the last
\* reduction was given keeps the contents it had.
content_storage_of_copy(store) ==
    IF store = last.old_store /\ store # dht
    THEN last.old_cas
    ELSE content_storage

\* DhtStore::content_storage() of the snapshot store: old_store.clone()
\* clones the handle, not the storage, so every snapshot reads the one
\* storage the reducers write to.
content_storage_of(store) == content_storage

(***************************************************************************)
(* The reducers.  Each returns what the Rust function returns together     *)
(* with what it did to its collaborators:                                  *)
(*   cas      the content storage after the call                           *)
(*   some     Some(new_store) (TRUE) or None (FALSE)                       *)
(*   calls    the collaborator operations called, in order                 *)
(*   pubs     the entries passed to Network::publish, in order             *)
(*   gets     the addresses passed to Network::get, in order               *)
(*   got      what Network::get returned: {} (None) or {content}           *)
(*   checked  result of the contains pre-condition check, if made          *)
(*   added    result of the storage add, if made                           *)
(*   panic    the call panicked (unwrap / expect) instead of returning     *)
(* Record constructors name their fields in the order TLC normalises them  *)
(* to (the order in which the names first occur in the module).            *)
(***************************************************************************)

\* A reducer that returns None without touching anything.
None(cas) ==
    [cas |-> cas, some |-> FALSE, calls |-> <<>>, pubs |-> <<>>, gets |-> <<>>,
     got |-> {}, checked |-> "n/a", added |-> "n/a", panic |-> FALSE]

\* Variant in which the failed add is ignored and the clone returned.
AddFailed_ignored(cas) ==
    [None(cas) EXCEPT !.some = TRUE, !.calls = <<"add">>, !.added = "err"]

\* The add of line 73 / 114 / 182 failed: the reducer returns None and the
\* storage holds what it held.
AddFailed(cas) == [None(cas) EXCEPT !.calls = <<"add">>, !.added = "err"]

\* Variant of the add in which the new store starts from an empty storage.
Added_to_new_storage(cas, entry) ==
    [None(cas) EXCEPT !.some = TRUE, !.cas = add(EmptyStorage, entry),
                      !.calls = <<"add">>, !.added = "ok"]

\* The add succeeded: the clone of the store, whose storage now holds entry.
Added(cas, entry) ==
    [None(cas) EXCEPT !.some = TRUE, !.cas = add(cas, entry),
                      !.calls = <<"add">>, !.added = "ok"]

\* new_store.network_mut().publish(entry) after what r did.
Publish(r, entry) ==
    [r EXCEPT !.calls = @ \o <<"publish">>, !.pubs = @ \o <<entry>>]

\* Variant of commit_sys_entry that also publishes the entry.
commit_sys_entry_publishing(context, cas, entry, o) ==
    IF ~can_publish(entry.entry_type)
    THEN None(cas)
    ELSE IF o.add = "err"
         THEN AddFailed(cas)
         ELSE Publish(Added(cas, entry), entry)

\* Variant of commit_sys_entry without the can_publish check.
commit_sys_entry_any_type(context, cas, entry, o) ==
    IF o.add = "err"
    THEN AddFailed(cas)
    ELSE Added(cas, entry)

\* commit_sys_entry
commit_sys_entry(context, cas, entry, o) ==
    IF ~can_publish(entry.entry_type)
    THEN None(cas)
    ELSE IF o.add = "err"
         THEN AddFailed(cas)
         ELSE Added(cas, entry)

\* Variant of commit_app_entry that stores the entry and never publishes it.
commit_app_entry_unpublished(context, cas, entry, o) ==
    IF context # "Dna"
    THEN [None(cas) EXCEPT !.panic = TRUE]
    ELSE IF get_entry_type_def(entry.entry_type) = "none"
         THEN None(cas)
         ELSE IF ~sharing_can_publish(get_entry_type_def(entry.entry_type))
              THEN None(cas)
              ELSE IF o.add = "err"
                   THEN AddFailed(cas)
                   ELSE Added(cas, entry)

\* Variant of commit_app_entry without the sharing check.
commit_app_entry_any_sharing(context, cas, entry, o) ==
    IF context # "Dna"
    THEN [None(cas) EXCEPT !.panic = TRUE]
    ELSE IF get_entry_type_def(entry.entry_type) = "none"
         THEN None(cas)
         ELSE IF o.add = "err"
              THEN AddFailed(cas)
              ELSE Publish(Added(cas, entry), entry)

\* Variant of commit_app_entry that takes a type without definition as public.
commit_app_entry_any_type(context, cas, entry, o) ==
    IF context # "Dna"
    THEN [None(cas) EXCEPT !.panic = TRUE]
    ELSE IF ~sharing_can_publish(get_entry_type_def(entry.entry_type))
         THEN None(cas)
         ELSE IF o.add = "err"
              THEN AddFailed(cas)
              ELSE Publish(Added(cas, entry), entry)

\* Variant of commit_app_entry that publishes before it looks at the result
\* of the add.
commit_app_entry_publish_first(context, cas, entry, o) ==
    IF context # "Dna"
    THEN [None(cas) EXCEPT !.panic = TRUE]
    ELSE IF get_entry_type_def(entry.entry_type) = "none"
         THEN None(cas)
         ELSE IF ~sharing_can_publish(get_entry_type_def(entry.entry_type))
              THEN None(cas)
              ELSE IF o.add = "err"
                   THEN [None(cas) EXCEPT !.calls = <<"publish", "add">>,
                                          !.pubs = <<entry>>, !.added = "err"]
                   ELSE [Added(cas, entry) EXCEPT
                             !.calls = <<"publish", "add">>, !.pubs = <<entry>>]

\* commit_app_entry: both expects panic on a context without state or DNA.
commit_app_entry(context, cas, entry, o) ==
    IF context # "Dna"
    THEN [None(cas) EXCEPT !.panic = TRUE]
    ELSE IF get_entry_type_def(entry.entry_type) = "none"
         THEN None(cas)
         ELSE IF ~sharing_can_publish(get_entry_type_def(entry.entry_type))
              THEN None(cas)
              ELSE IF o.add = "err"
                   THEN AddFailed(cas)
                   ELSE Publish(Added(cas, entry), entry)

\* The contains(...).unwrap() of line 139 / 169 on an Err: a panic.
ContainsPanics(cas) ==
    [None(cas) EXCEPT !.calls = <<"contains">>, !.checked = "err",
                      !.panic = TRUE]

\* What the reducer did (r) after its contains check answered res.
Checked(r, res) ==
    [r EXCEPT !.calls = <<"contains">> \o @, !.checked = res]

\* Variant of reduce_commit_entry without the already-stored rejection.
reduce_commit_entry_unchecked(context, cas, action_wrapper, o) ==
    LET entry == action_wrapper.entry IN
    IF o.contains = "err"
    THEN ContainsPanics(cas)
    ELSE LET res == IF contains(cas, address(entry)) THEN "true" ELSE "false" IN
         IF is_sys(entry.entry_type)
         THEN Checked(commit_sys_entry(context, cas, entry, o), res)
         ELSE Checked(commit_app_entry(context, cas, entry, o), res)

\* reduce_commit_entry
reduce_commit_entry(context, cas, action_wrapper, o) ==
    LET entry == action_wrapper.entry IN
    IF o.contains = "err"
    THEN ContainsPanics(cas)
    ELSE IF contains(cas, address(entry))
         THEN Checked(None(cas), "true")
         ELSE IF is_sys(entry.entry_type)
              THEN Checked(commit_sys_entry(context, cas, entry, o), "false")
              ELSE Checked(commit_app_entry(context, cas, entry, o), "false")

\* Variant of the caching of a fetched entry that also publishes it.
Fetched_publishing(cas, a, got, o) ==
    LET entry == from_content(CHOOSE c \in got : TRUE) IN
    [(IF o.add = "err" THEN AddFailed(cas)
      ELSE Publish(Added(cas, entry), entry)) EXCEPT
        !.calls = <<"get">> \o @, !.gets = <<a>>, !.got = got]

\* Network::get(address) returned some content: Entry::from_content and the
\* add of it to the clone's storage.
Fetched(cas, a, got, o) ==
    LET entry == from_content(CHOOSE c \in got : TRUE) IN
    [(IF o.add = "err" THEN AddFailed(cas) ELSE Added(cas, entry)) EXCEPT
        !.calls = <<"get">> \o @, !.gets = <<a>>, !.got = got]

\* Variant of reduce_get_entry_from_network that fetches without looking in
\* the local storage first.
reduce_get_entry_unchecked(context, cas, action_wrapper, o) ==
    LET a == action_wrapper.address IN
    IF o.contains = "err"
    THEN ContainsPanics(cas)
    ELSE LET res == IF contains(cas, a) THEN "true" ELSE "false" IN
         IF o.get = {}
         THEN Checked([None(cas) EXCEPT !.calls = <<"get">>, !.gets = <<a>>],
                      res)
         ELSE Checked(Fetched(cas, a, o.get, o), res)

\* reduce_get_entry_from_network
reduce_get_entry_from_network(context, cas, action_wrapper, o) ==
    LET a == action_wrapper.address IN
    IF o.contains = "err"
    THEN ContainsPanics(cas)
    ELSE IF contains(cas, a)
         THEN Checked(None(cas), "true")
         ELSE IF o.get = {}
              THEN Checked([None(cas) EXCEPT !.calls = <<"get">>,
                                             !.gets = <<a>>], "false")
              ELSE Checked(Fetched(cas, a, o.get, o), "false")

\* Variant of reduce_add_link that returns a clone of the store.
reduce_add_link_cloning(context, cas, action_wrapper, o) ==
    [None(cas) EXCEPT !.some = TRUE]

\* reduce_add_link
reduce_add_link(context, cas, action_wrapper, o) == None(cas)

\* reduce_get_links
reduce_get_links(context, cas, action_wrapper, o) == None(cas)

\* resolve_reducer: the name of the reducer of the action, or "None".
resolve_reducer(action_wrapper) ==
    CASE action_wrapper.action = "Commit"   -> "reduce_commit_entry"
      [] action_wrapper.action = "GetEntry" -> "reduce_get_entry_from_network"
      [] action_wrapper.action = "AddLink"  -> "reduce_add_link"
      [] action_wrapper.action = "GetLinks" -> "reduce_get_links"
      [] OTHER                              -> "None"

\* The call reducer(context, &old_store, &action_wrapper) of reduce.
Apply(reducer, context, cas, action_wrapper, o) ==
    CASE reducer = "reduce_commit_entry" ->
            reduce_commit_entry(context, cas, action_wrapper, o)
      [] reducer = "reduce_get_entry_from_network" ->
            reduce_get_entry_from_network(context, cas, action_wrapper, o)
      [] reducer = "reduce_add_link" ->
            reduce_add_link(context, cas, action_wrapper, o)
      [] reducer = "reduce_get_links" ->
            reduce_get_links(context, cas, action_wrapper, o)

\* What reduce does on the storage cas: the reducer's result, or None when
\* no reducer is resolved.
Reduction(context, cas, action_wrapper, o) ==
    IF resolve_reducer(action_wrapper) = "None"
    THEN None(cas)
    ELSE Apply(resolve_reducer(action_wrapper), context, cas, action_wrapper, o)

\* The outcomes o that differ only in what the reduction r never consulted
\* are one input: o names the default for each collaborator r did not call.
Consulted(r, o) ==
    /\ r.checked = "n/a" => o.contains = "ok"
    /\ r.added = "n/a" => o.add = "ok"
    /\ r.gets = <<>> => o.get = {}

\* Variant of reduce that wraps the store in a new Arc also when the reducer
\* returned None.
reduce_fresh_arc(context, action_wrapper, o) ==
    /\ ~panicked
    /\ dht < MaxSnapshots
    /\ last' = [old_store |-> dht, old_cas |-> content_storage,
                r |-> Reduction(context, content_storage, action_wrapper, o),
                context |-> context, action_wrapper |-> action_wrapper,
                old_published |-> published]
    /\ Consulted(last'.r, o)
    /\ content_storage' = last'.r.cas
    /\ published' = published \o last'.r.pubs
    /\ panicked' = last'.r.panic
    /\ dht' = IF ~last'.r.panic THEN dht + 1 ELSE dht

\* reduce: one call on the current snapshot.  Some(new_store) is wrapped in
\* a fresh Arc; None gives the old Arc back; a panic returns nothing.
reduce(context, action_wrapper, o) ==
    /\ ~panicked
    /\ dht < MaxSnapshots
    /\ last' = [old_store |-> dht, old_cas |-> content_storage,
                r |-> Reduction(context, content_storage, action_wrapper, o),
                context |-> context, action_wrapper |-> action_wrapper,
                old_published |-> published]
    /\ Consulted(last'.r, o)
    /\ content_storage' = last'.r.cas
    /\ published' = published \o last'.r.pubs
    /\ panicked' = last'.r.panic
    /\ dht' = IF last'.r.some /\ ~last'.r.panic THEN dht + 1 ELSE dht

\* The threads that dispatch actions to the instance.
Dispatchers == {"d1", "d2"}

\* A dispatcher that has not dispatched.
Idle ==
    [r |-> None(EmptyStorage), action_wrapper |-> [action |-> "InitApplication"],
     phase |-> "idle", given |-> 0, returned |-> 0]

\* No Instance: Holochain::new has not built one, or has dropped it.
NoInstance == [nucleus_dna |-> "none", has_initialized |-> FALSE, executed |-> <<>>]

\* No API call has been made.
NoApiCall ==
    [method |-> "none", args |-> <<>>, old_active |-> FALSE,
     old_instance |-> NoInstance, answer |-> <<>>, old_logger |-> <<>>]

\* The state before any reduction: an empty store, nothing published.
NoCall ==
    [old_store |-> 0, old_cas |-> EmptyStorage, r |-> None(EmptyStorage),
     context |-> "Dna", action_wrapper |-> [action |-> "InitApplication"],
     old_published |-> <<>>]

Init ==
    /\ dht = 0
    /\ content_storage = EmptyStorage
    /\ published = <<>>
    /\ panicked = FALSE
    /\ last = NoCall
    /\ channel = <<>>
    /\ dispatched = [d \in Dispatchers |-> Idle]
    /\ app = "none"
    /\ active = FALSE
    /\ instance = NoInstance
    /\ logger = <<>>
    /\ last_call = NoApiCall

\* Outcomes of a reduction that does not call the network's get.
StorageOutcomes == {o \in Outcomes : o.get = {}}

\* Outcomes of a reduction that calls no collaborator.
NoOutcomes == {o \in StorageOutcomes : o.contains = "ok" /\ o.add = "ok"}

\* Action::Commit(entry) is reduced, under any context.
Commit ==
    \E context \in Contexts, entry \in Entry, o \in StorageOutcomes :
        LET action_wrapper == [entry |-> entry, action |-> "Commit"] IN
        /\ resolve_reducer(action_wrapper) = "reduce_commit_entry"
        /\ reduce(context, action_wrapper, o)
        /\ UNCHANGED <<loop_vars, api_vars>>

\* Action::GetEntry(address) is reduced; the reducer ignores its _context.
GetEntry ==
    \E a \in Addresses, o \in Outcomes :
        LET action_wrapper == [address |-> a, action |-> "GetEntry"] IN
        /\ resolve_reducer(action_wrapper) = "reduce_get_entry_from_network"
        /\ reduce("Dna", action_wrapper, o)
        /\ UNCHANGED <<loop_vars, api_vars>>

\* Action::AddLink(link) is reduced, under any context.
AddLink ==
    \E context \in Contexts, a \in Addresses, o \in NoOutcomes :
        LET action_wrapper == [action |-> "AddLink", link |-> a] IN
        /\ resolve_reducer(action_wrapper) = "reduce_add_link"
        /\ reduce(context, action_wrapper, o)
        /\ UNCHANGED <<loop_vars, api_vars>>

\* Action::GetLinks(link) is reduced, under any context.
GetLinks ==
    \E context \in Contexts, a \in Addresses, o \in NoOutcomes :
        LET action_wrapper == [action |-> "GetLinks", link |-> a] IN
        /\ resolve_reducer(action_wrapper) = "reduce_get_links"
        /\ reduce(context, action_wrapper, o)
        /\ UNCHANGED <<loop_vars, api_vars>>

\* An action of another state slice is handed to the DHT reducer.
OtherAction ==
    \E o \in NoOutcomes :
        /\ resolve_reducer([action |-> "InitApplication"]) = "None"
        /\ reduce("Dna", [action |-> "InitApplication"], o)
        /\ UNCHANGED <<loop_vars, api_vars>>

Next == Commit \/ GetEntry \/ AddLink \/ GetLinks \/ OtherAction

Spec == Init /\ [][Next]_vars

(***************************************************************************)
(* The action loop: actions arrive on a channel from concurrent            *)
(* dispatchers and are reduced one at a time, in the order of arrival,     *)
(* the whole reduce call being made under the state's mutual exclusion.    *)
(***************************************************************************)

\* Dispatcher d sends Commit(entry); the dispatchers commit one address.
dispatch_action(d, entry) ==
    /\ dispatched[d].phase = "idle"
    /\ \A other \in Dispatchers :
          dispatched[other].phase # "idle"
          => address(dispatched[other].action_wrapper.entry) = address(entry)
    /\ channel' = Append(channel, d)
    /\ dispatched' =
          [dispatched EXCEPT ![d] =
              [r |-> None(EmptyStorage),
               action_wrapper |-> [entry |-> entry, action |-> "Commit"],
               phase |-> "sent", given |-> 0, returned |-> 0]]
    /\ UNCHANGED <<dht_vars, api_vars>>

\* The loop takes the action at the head of the channel and reduces it.
process_action(context, o) ==
    /\ channel # <<>>
    /\ reduce(context, dispatched[Head(channel)].action_wrapper, o)
    /\ channel' = Tail(channel)
    /\ dispatched' =
          [dispatched EXCEPT ![Head(channel)] =
              [r |-> last'.r, action_wrapper |-> @.action_wrapper,
               phase |-> IF panicked' THEN "panicked" ELSE "reduced",
               given |-> dht, returned |-> dht']]
    /\ UNCHANGED api_vars

DispatchAction ==
    \E d \in Dispatchers, entry \in Entry : dispatch_action(d, entry)

ProcessAction ==
    \E context \in Contexts, o \in StorageOutcomes : process_action(context, o)

LoopNext == DispatchAction \/ ProcessAction

\* Two dispatchers commit one address to an instance with an empty store.
LoopSpec == Init /\ [][LoopNext]_vars

(***************************************************************************)
(* The Holochain API object of core_api/src/lib.rs: new, start, stop and   *)
(* call.  The instance it owns is seen through its nucleus (the DNA it     *)
(* holds, whether it has initialized) and the zome calls it has executed;  *)
(* what initialize_application and call_and_wait_for_result answer are     *)
(* inputs.                                                                 *)
(***************************************************************************)

\* Number of zome calls the instance executes before the run stops.
MaxCalls == 2

\* Names of the DNAs an application is instantiated with.
Dnas == {"TestApp", "OtherApp"}

\* Results of initialize_application: Ok, or Err with a reason.
Initializations ==
    {<<"Ok", "()">>, <<"Err", "fail">>, <<"Err", "Timeout while initializing">>}

\* ZomeFnCall::new(zome, cap, fn_name, params)
ZomeFnCalls ==
    [zome : {"test_zome"}, cap : {"test_cap"},
     fn_name : {"main", "debug_hello"}, params : {"", "{}"}]

\* Results of call_and_wait_for_result.
ZomeFnResults ==
    {<<"Ok", "{\"holo\":\"world\"}">>, <<"Ok", "\"Hello world!\"">>,
     <<"Err", "ErrorGeneric">>}

\* What an API call leaves in last_call.
ApiCall(method, args, answer) ==
    [method |-> method, args |-> args, old_active |-> active,
     old_instance |-> instance, answer |-> answer, old_logger |-> logger]

\* Variant of Holochain::new that returns the app whatever
\* initialize_application answered.
new_ignoring_failure(dna, initialization, log) ==
    /\ app = "none"
    /\ logger' = Append(logger, dna \o " instantiated")
    /\ app' = "instantiated"
    /\ instance' = [nucleus_dna |-> dna,
                    has_initialized |-> initialization[1] = "Ok",
                    executed |-> <<>>]
    /\ active' = FALSE
    /\ last_call' = ApiCall("new", <<dna, initialization>>, <<"Ok", "app">>)
    /\ UNCHANGED <<dht_vars, loop_vars>>

\* Holochain::new(dna, context): the instance is created and initialized
\* with the DNA; if the initialization fails the instance is dropped.
new(dna, initialization, log) ==
    /\ app = "none"
    /\ IF initialization[1] = "Ok"
       THEN IF log = "ok"
            THEN /\ logger' = Append(logger, dna \o " instantiated")
                 /\ app' = "instantiated"
                 /\ instance' = [nucleus_dna |-> dna, has_initialized |-> TRUE,
                                 executed |-> <<>>]
                 /\ active' = FALSE
                 /\ last_call' = ApiCall("new", <<dna, initialization>>, <<"Ok", "app">>)
            ELSE /\ last_call' = ApiCall("new", <<dna, initialization>>, <<"Err", "log">>)
                 /\ UNCHANGED <<app, active, instance, logger>>
       ELSE /\ last_call' =
                 ApiCall("new", <<dna, initialization>>,
                         <<"Err", "ErrorGeneric", initialization[2]>>)
            /\ UNCHANGED <<app, active, instance, logger>>
    /\ UNCHANGED <<dht_vars, loop_vars>>

\* Variant of Holochain.start without the check of self.active.
start_unchecked ==
    /\ app = "instantiated"
    /\ active' = TRUE
    /\ last_call' = ApiCall("start", <<>>, <<"Ok", "()">>)
    /\ UNCHANGED <<app, instance, logger, dht_vars, loop_vars>>

\* Holochain.start
start ==
    /\ app = "instantiated"
    /\ IF active
       THEN /\ last_call' = ApiCall("start", <<>>, <<"Err", "InstanceActive">>)
            /\ UNCHANGED active
       ELSE /\ active' = TRUE
            /\ last_call' = ApiCall("start", <<>>, <<"Ok", "()">>)
    /\ UNCHANGED <<app, instance, logger, dht_vars, loop_vars>>

\* Holochain.stop
stop ==
    /\ app = "instantiated"
    /\ IF ~active
       THEN /\ last_call' = ApiCall("stop", <<>>, <<"Err", "InstanceNotActive">>)
            /\ UNCHANGED active
       ELSE /\ active' = FALSE
            /\ last_call' = ApiCall("stop", <<>>, <<"Ok", "()">>)
    /\ UNCHANGED <<app, instance, logger, dht_vars, loop_vars>>

\* call_and_wait_for_result(zome_call, &mut self.instance): the instance
\* executes the zome call and its result comes back.
call_and_wait_for_result(zome_call, result) ==
    [instance EXCEPT !.executed =
        Append(@, [zome_call |-> zome_call, result |-> result])]

\* What the execution of a zome call writes to the logger: a function that
\* returned leaves "Zome Function '<fn_name>' returned: Success"; a call that
\* failed either never ran the function (nothing logged) or logged the error
\* the function returned.
ReturnLogs(zome_call, result) ==
    LET returned == "Zome Function '" \o zome_call.fn_name \o "' returned: " IN
    IF result[1] = "Ok"
    THEN {<<returned \o "Success">>}
    ELSE {<<>>, <<returned \o result[2]>>}

\* Variant of Holochain.call that forwards the call whatever self.active.
call_unchecked(zome, cap, fn_name, params, result) ==
    LET zome_call == [zome |-> zome, cap |-> cap, fn_name |-> fn_name,
                      params |-> params] IN
    /\ app = "instantiated"
    /\ Len(instance.executed) < MaxCalls
    /\ instance' = call_and_wait_for_result(zome_call, result)
    /\ \E message \in ReturnLogs(zome_call, result) :
           logger' = logger \o message
    /\ last_call' = ApiCall("call", <<zome_call>>, result)
    /\ UNCHANGED <<app, active, dht_vars, loop_vars>>

\* Holochain.call
call(zome, cap, fn_name, params, result) ==
    LET zome_call == [zome |-> zome, cap |-> cap, fn_name |-> fn_name,
                      params |-> params] IN
    /\ app = "instantiated"
    /\ IF ~active
       THEN /\ last_call' =
                 ApiCall("call", <<zome_call>>, <<"Err", "InstanceNotActive">>)
            /\ UNCHANGED <<instance, logger>>
       ELSE /\ Len(instance.executed) < MaxCalls
            /\ instance' = call_and_wait_for_result(zome_call, result)
            /\ \E message \in ReturnLogs(zome_call, result) :
                   logger' = logger \o message
            /\ last_call' = ApiCall("call", <<zome_call>>, result)
    /\ UNCHANGED <<app, active, dht_vars, loop_vars>>

New ==
    \E dna \in Dnas, initialization \in Initializations, log \in {"ok", "err"} :
        new(dna, initialization, log)

Start == start

Stop == stop

Call ==
    \E zc \in ZomeFnCalls, result \in ZomeFnResults :
        call(zc.zome, zc.cap, zc.fn_name, zc.params, result)

ApiNext == New \/ Start \/ Stop \/ Call

\* The calls a user of the API makes, in any order.
ApiSpec == Init /\ [][ApiNext]_vars

(***************************************************************************)
(* Reading the last reduction off the state                                *)
(***************************************************************************)

IsCommit == last.action_wrapper.action = "Commit"
IsGetEntry == last.action_wrapper.action = "GetEntry"

\* reduce returned the Arc it was given.
ReturnedOld == ~panicked /\ dht = last.old_store

\* reduce returned a new Arc.
ReturnedNew == ~panicked /\ dht # last.old_store

\* The storage holds what it held before the reduction.
StorageUnchanged == content_storage = last.old_cas

\* The entries the reduction handed to publish: what published gained.
PublishCalls ==
    SubSeq(published, Len(last.old_published) + 1, Len(published))

\* The contains check of the reduction returned Ok.
ContainsAnswered == last.r.checked \in {"true", "false"}

\* The storage add of the reduction was made and returned Ok.
AddSucceeded == last.r.added = "ok"

\* The commit preconditions of 4.2 - 4.4 for entry on storage cas.
PassesCommitPreconditions(context, cas, entry) ==
    /\ ~contains(cas, address(entry))
    /\ IF is_sys(entry.entry_type)
       THEN can_publish(entry.entry_type)
       ELSE /\ context = "Dna"
            /\ get_entry_type_def(entry.entry_type) # "none"
            /\ sharing_can_publish(get_entry_type_def(entry.entry_type))

\* The last reduction was Commit of an application entry under a loaded DNA.
IsAppCommit ==
    /\ IsCommit
    /\ ~is_sys(last.action_wrapper.entry.entry_type)
    /\ last.context = "Dna"

(***************************************************************************)
(* C1: commit idempotence-rejection                                        *)
(***************************************************************************)

\* One step of the commit rule, for a Commit whose contains check answers:
\* with the preconditions met and the add succeeding the step returns a new
\* snapshot and the address is stored; with the address already stored it
\* returns the old snapshot, stores nothing and publishes nothing; the
\* latter is so in particular when the step before was the same Commit and
\* returned a new snapshot.
C1_Step ==
    LET aw == last'.action_wrapper IN
    (aw.action = "Commit" /\ last'.r.checked \in {"true", "false"}) =>
        /\ (/\ PassesCommitPreconditions(last'.context, content_storage,
                                         aw.entry)
            /\ last'.r.added = "ok")
           => /\ ~panicked'
              /\ dht' # dht
              /\ contains(content_storage', address(aw.entry))
        /\ contains(content_storage, address(aw.entry))
           => /\ ~panicked'
              /\ dht' = dht
              /\ content_storage' = content_storage
              /\ published' = published
        /\ (IsCommit /\ ReturnedNew /\ aw = last.action_wrapper)
           => /\ ~panicked'
              /\ dht' = dht
              /\ content_storage' = content_storage
              /\ published' = published

\* C1: Commit(E) twice in sequence: the first reduce returns a new snapshot
\* and stores E.address, the second returns the snapshot it was given, adds
\* nothing and publishes nothing; Commit(E) with E.address already stored
\* always returns the old snapshot.
C1_CommitTwiceRejected == [][C1_Step]_vars

\* The second of two Commits of one publishable application entry: stored
\* and published by the first, rejected by the second.
C1_Witness ==
    /\ IsCommit
    /\ last.r.checked = "true"
    /\ ReturnedOld
    /\ dht = 1
    /\ published = <<last.action_wrapper.entry>>
    /\ StoredAddresses(content_storage) = {address(last.action_wrapper.entry)}

(***************************************************************************)
(* C2: system entries are never published                                  *)
(***************************************************************************)

\* C2: no system entry is ever passed to publish; a Commit of a system entry
\* leaves the published entries as they were, and when its type can be
\* published, its address is not yet stored and the storage answers, it
\* stores the entry and returns a new snapshot.
C2_SysNeverPublished ==
    /\ \A i \in 1..Len(published) : ~is_sys(published[i].entry_type)
    /\ (IsCommit /\ is_sys(last.action_wrapper.entry.entry_type))
       => /\ published = last.old_published
          /\ (/\ can_publish(last.action_wrapper.entry.entry_type)
              /\ ~contains(last.old_cas, address(last.action_wrapper.entry))
              /\ ContainsAnswered
              /\ AddSucceeded)
             => /\ ReturnedNew
                /\ fetch(content_storage, address(last.action_wrapper.entry))
                     = {last.action_wrapper.entry}

\* A system entry committed after an application entry was published.
C2_Witness ==
    /\ IsCommit
    /\ is_sys(last.action_wrapper.entry.entry_type)
    /\ ReturnedNew
    /\ contains(content_storage, address(last.action_wrapper.entry))
    /\ Len(published) = 1

(***************************************************************************)
(* C3: a publishable application entry is stored and published once        *)
(***************************************************************************)

\* C3: Commit(E) of an application entry whose address is not stored, whose
\* type the loaded DNA defines with a sharing that can publish, with a
\* successful add, returns a new snapshot holding E.address and calls
\* publish exactly once, with E.
C3_AppCommitPublishesOnce ==
    (/\ IsAppCommit
     /\ PassesCommitPreconditions(last.context, last.old_cas,
                                  last.action_wrapper.entry)
     /\ ContainsAnswered
     /\ AddSucceeded)
    => /\ ReturnedNew
       /\ contains(content_storage, address(last.action_wrapper.entry))
       /\ PublishCalls = <<last.action_wrapper.entry>>

\* The second publishable application entry committed.
C3_Witness ==
    /\ IsAppCommit
    /\ PassesCommitPreconditions(last.context, last.old_cas,
                                 last.action_wrapper.entry)
    /\ AddSucceeded
    /\ ReturnedNew
    /\ Len(published) = 2

(***************************************************************************)
(* C4: sharing policy enforcement                                          *)
(***************************************************************************)

\* C4: Commit(E) of an application entry whose type definition's sharing
\* cannot publish returns the old snapshot, writes nothing to the storage
\* and does not call publish.
C4_PrivateAppCommitRejected ==
    (/\ IsAppCommit
     /\ get_entry_type_def(last.action_wrapper.entry.entry_type) # "none"
     /\ ~sharing_can_publish(
            get_entry_type_def(last.action_wrapper.entry.entry_type))
     /\ ContainsAnswered)
    => /\ ReturnedOld
       /\ StorageUnchanged
       /\ PublishCalls = <<>>

\* A private application entry, not stored, was committed and rejected.
C4_Witness ==
    /\ IsAppCommit
    /\ get_entry_type_def(last.action_wrapper.entry.entry_type) = "private"
    /\ last.r.checked = "false"
    /\ ReturnedOld
    /\ ~contains(content_storage, address(last.action_wrapper.entry))

(***************************************************************************)
(* C5: unknown schema rejection                                            *)
(***************************************************************************)

\* C5: Commit(E) of an application entry whose type the loaded DNA does not
\* define returns the old snapshot, leaves the storage unchanged and does
\* not call publish.
C5_UndefinedAppCommitRejected ==
    (/\ IsAppCommit
     /\ get_entry_type_def(last.action_wrapper.entry.entry_type) = "none"
     /\ ContainsAnswered)
    => /\ ReturnedOld
       /\ StorageUnchanged
       /\ PublishCalls = <<>>

\* An application entry of an undefined type, not stored, was committed and
\* rejected.
C5_Witness ==
    /\ IsAppCommit
    /\ get_entry_type_def(last.action_wrapper.entry.entry_type) = "none"
    /\ last.r.checked = "false"
    /\ ReturnedOld
    /\ ~contains(content_storage, address(last.action_wrapper.entry))

(***************************************************************************)
(* C6: the add comes before the publish                                    *)
(***************************************************************************)

\* Position of the first call of op in the calls of the last reduction, or 0.
FirstCall(op) ==
    IF \E i \in 1..Len(last.r.calls) : last.r.calls[i] = op
    THEN CHOOSE i \in 1..Len(last.r.calls) :
            /\ last.r.calls[i] = op
            /\ \A j \in 1..(i - 1) : last.r.calls[j] # op
    ELSE 0

\* C6: in a Commit the storage add is called, and returns Ok, before publish
\* is called, and publish is not called when the add fails; every entry
\* handed to publish is held by the local content storage.
C6_AddBeforePublish ==
    /\ IsCommit =>
         /\ (PublishCalls # <<>> \/ FirstCall("publish") # 0)
            => /\ AddSucceeded
               /\ 0 < FirstCall("add")
               /\ FirstCall("add") < FirstCall("publish")
         /\ last.r.added = "err" => PublishCalls = <<>>
    /\ \A i \in 1..Len(published) :
         fetch(content_storage, address(published[i])) = {published[i]}

\* With one entry published, the Commit of another publishable application
\* entry whose add failed.
C6_Witness ==
    /\ IsAppCommit
    /\ PassesCommitPreconditions(last.context, last.old_cas,
                                 last.action_wrapper.entry)
    /\ last.r.added = "err"
    /\ Len(published) = 1

(***************************************************************************)
(* C7: get-entry cache-first                                               *)
(***************************************************************************)

\* C7: GetEntry(a) with a already stored never calls the network's get and
\* returns the old snapshot with the storage unchanged.
C7_GetEntryCacheFirst ==
    (/\ IsGetEntry
     /\ contains(last.old_cas, last.action_wrapper.address)
     /\ ContainsAnswered)
    => /\ last.r.gets = <<>>
       /\ FirstCall("get") = 0
       /\ ReturnedOld
       /\ StorageUnchanged

\* GetEntry of a stored address was reduced.
C7_Witness ==
    /\ IsGetEntry
    /\ contains(last.old_cas, last.action_wrapper.address)
    /\ ContainsAnswered
    /\ ReturnedOld

(***************************************************************************)
(* C8: get-entry network fallback                                          *)
(***************************************************************************)

\* C8: GetEntry(a) with a not stored (the contains check answering) calls
\* the network's get exactly once; if the get returns content (and the add
\* of it does not fail), a is stored and fetchable afterwards and reduce
\* returns a new snapshot; if the get fails, reduce returns the old snapshot
\* and the storage is unchanged.
C8_GetEntryNetworkFallback ==
    (/\ IsGetEntry
     /\ ~contains(last.old_cas, last.action_wrapper.address)
     /\ ContainsAnswered)
    => /\ last.r.gets = <<last.action_wrapper.address>>
       /\ (last.r.got # {} /\ last.r.added # "err")
          => /\ ReturnedNew
             /\ fetch(content_storage, last.action_wrapper.address) # {}
       /\ last.r.got = {} => (ReturnedOld /\ StorageUnchanged)

(***************************************************************************)
(* C9: fetched content of another address                                  *)
(***************************************************************************)

\* The network returned content whose derived address is not the one asked.
FetchedMismatch ==
    /\ IsGetEntry
    /\ \E c \in last.r.got :
          address(from_content(c)) # last.action_wrapper.address

\* C9: when the content the network returns for GetEntry(a) derives to an
\* address other than a, reduce returns the old snapshot and nothing is
\* written to the storage.
C9_MismatchIsFetchFailure ==
    FetchedMismatch => (ReturnedOld /\ StorageUnchanged)

(***************************************************************************)
(* C10: reduce is total                                                    *)
(***************************************************************************)

\* C10: reduce never panics, whatever the collaborators answer and whatever
\* the context holds, and a storage failure (contains or add returning Err)
\* yields the old snapshot.
C10_ReduceIsTotal ==
    /\ ~panicked
    /\ (last.r.checked = "err" \/ last.r.added = "err")
       => (dht = last.old_store /\ StorageUnchanged)

(***************************************************************************)
(* C11: two concurrent Commits of one address                              *)
(***************************************************************************)

\* The dispatchers whose Commit has been reduced (without a panic).
Reduced == {d \in Dispatchers : dispatched[d].phase = "reduced"}

\* The dispatchers whose Commit produced a new snapshot.
Winners == {d \in Reduced : dispatched[d].returned # dispatched[d].given}

\* Number of times entry was handed to publish.
TimesPublished(entry) ==
    Cardinality({i \in 1..Len(published) : published[i] = entry})

\* The entry dispatcher d commits.
Committed(d) == dispatched[d].action_wrapper.entry

\* Some reduction of the two Commits made the storage add and it succeeded.
SomeAddSucceeded == \E w \in Dispatchers : dispatched[w].r.added = "ok"

\* C11 as stated: once the Commits of the two dispatchers for one address
\* have been reduced, in either order of arrival, exactly one of them has
\* produced a new snapshot, the other was given back the snapshot it was
\* reduced on, and an application entry has been published exactly once.
C11_ExactlyOneWins ==
    Reduced = Dispatchers
    => /\ Cardinality(Winners) = 1
       /\ \A d \in Dispatchers \ Winners :
             dispatched[d].returned = dispatched[d].given
       /\ \A d \in Dispatchers :
             ~is_sys(Committed(d).entry_type)
             => TimesPublished(Committed(d)) = 1

\* C11 as amended: the Commits of two dispatchers for one address are
\* reduced one after the other, in either order of arrival; at most one of
\* them produces a new snapshot, every other one (a reduction that
\* panicked included) leaves the snapshot it was reduced on in place without
\* a storage write or a publish, and the entry is published at most once;
\* when both are reduced, exactly one produces a new snapshot if the entry
\* passes the commit preconditions and not every add failed (an application
\* entry is then published exactly once, a system entry never), and none
\* does, with nothing published, otherwise.
C11_OneCommitWins ==
    /\ Cardinality(Winners) <= 1
    /\ \A d \in Dispatchers \ Winners :
          dispatched[d].phase \in {"reduced", "panicked"}
          => /\ dispatched[d].returned = dispatched[d].given
             /\ dispatched[d].r.added # "ok"
             /\ dispatched[d].r.pubs = <<>>
    /\ \A d \in Dispatchers :
          dispatched[d].phase # "idle"
          => TimesPublished(Committed(d)) <= 1
    /\ \A d \in Dispatchers :
          Reduced = Dispatchers
          => IF /\ PassesCommitPreconditions("Dna", EmptyStorage, Committed(d))
                /\ SomeAddSucceeded
             THEN /\ Cardinality(Winners) = 1
                  /\ TimesPublished(Committed(d))
                       = IF is_sys(Committed(d).entry_type) THEN 0 ELSE 1
             ELSE /\ Winners = {}
                  /\ TimesPublished(Committed(d)) = 0

\* Both Commits of an application entry are reduced: the one that arrived
\* first was that of d2, its add failed; the one of d1 produced the new
\* snapshot and published the entry.
C11_Witness ==
    /\ Reduced = Dispatchers
    /\ Winners = {"d1"}
    /\ dispatched["d2"].given = 0
    /\ dispatched["d2"].r.added = "err"
    /\ dispatched["d1"].r.checked = "false"
    /\ published = <<dispatched["d1"].action_wrapper.entry>>

(***************************************************************************)
(* C12: what a reader sees through a snapshot it holds                     *)
(***************************************************************************)

\* C12 as stated: a reader holding the snapshot a reduction was given sees
\* through it, after the reduction, the storage contents it saw before; an
\* entry the reduction added is not visible through it.
C12_SnapshotContentsFrozen ==
    content_storage_of(last.old_store) = last.old_cas

\* C12 as amended: the storage behind the snapshots is shared and only
\* grows; a reader holding the snapshot a reduction was given still sees,
\* after the reduction, every address it saw, with the same content, and it
\* sees what the reduction added, exactly as a reader of the snapshot the
\* reduction returned; a reduction that returns the old snapshot added
\* nothing.
C12_SharedStorageOnlyGrows ==
    /\ \A a \in StoredAddresses(last.old_cas) :
          content_storage_of(last.old_store)[a] = last.old_cas[a]
    /\ content_storage_of(last.old_store) = content_storage_of(dht)
    /\ content_storage_of(dht) = last.r.cas
    /\ ReturnedOld => content_storage_of(last.old_store) = last.old_cas

\* A reduction on a store that held an entry added another one.
C12_Witness ==
    /\ ReturnedNew
    /\ StoredAddresses(last.old_cas) # {}
    /\ StoredAddresses(content_storage_of(last.old_store))
         # StoredAddresses(last.old_cas)

(***************************************************************************)
(* C13: a committed system entry is visible through both stores            *)
(***************************************************************************)

\* C13: after commit_sys_entry returned a new store for the system entry S,
\* fetch of S.address gives S through the new store and through the store
\* the commit was called on.
C13_SysEntryInBothStores ==
    (/\ IsCommit
     /\ is_sys(last.action_wrapper.entry.entry_type)
     /\ last.r.some)
    => /\ dht # last.old_store
       /\ fetch(content_storage_of(dht), address(last.action_wrapper.entry))
            = {last.action_wrapper.entry}
       /\ fetch(content_storage_of(last.old_store),
                address(last.action_wrapper.entry))
            = {last.action_wrapper.entry}

\* commit_sys_entry returned a new store for a system entry that the store
\* it was called on did not hold.
C13_Witness ==
    /\ IsCommit
    /\ is_sys(last.action_wrapper.entry.entry_type)
    /\ last.r.some
    /\ ~contains(last.old_cas, address(last.action_wrapper.entry))
    /\ fetch(content_storage_of(last.old_store),
             address(last.action_wrapper.entry))
         = {last.action_wrapper.entry}

(***************************************************************************)
(* C14: commit_sys_entry of an entry whose type cannot be published        *)
(***************************************************************************)

\* The last reduction called commit_sys_entry with an entry whose type
\* cannot be published: a Commit of such a system entry, not yet stored.
SysCommitOfUnpublishable ==
    /\ IsCommit
    /\ is_sys(last.action_wrapper.entry.entry_type)
    /\ ~can_publish(last.action_wrapper.entry.entry_type)
    /\ last.r.checked = "false"

\* C14: commit_sys_entry with an entry whose type cannot be published
\* returns None: the add is not attempted, the storage holds what it held,
\* the entry is not fetchable, nothing is published and reduce returns the
\* old snapshot.
C14_UnpublishableSysCommitRejected ==
    SysCommitOfUnpublishable
    => /\ ~last.r.some
       /\ last.r.added = "n/a"
       /\ FirstCall("add") = 0
       /\ StorageUnchanged
       /\ fetch(content_storage, address(last.action_wrapper.entry)) = {}
       /\ PublishCalls = <<>>
       /\ ReturnedOld

\* The DNA entry was committed to a store that holds another entry, and
\* rejected.
C14_Witness ==
    /\ SysCommitOfUnpublishable
    /\ ReturnedOld
    /\ StoredAddresses(content_storage) # {}

(***************************************************************************)
(* C15: actions of other state slices                                      *)
(***************************************************************************)

\* The action of the last reduction has a variant without a DHT reducer.
IsOtherAction ==
    last.action_wrapper.action \notin {"Commit", "GetEntry", "AddLink", "GetLinks"}

\* C15: reducing an action whose variant is not Commit, GetEntry, AddLink or
\* GetLinks returns the very snapshot passed in, calls no collaborator (no
\* storage write, no network get, no publish) and leaves the storage as it
\* was.
C15_OtherActionIsNoOp ==
    IsOtherAction
    => /\ ~panicked
       /\ dht = last.old_store
       /\ last.r.calls = <<>>
       /\ last.r.gets = <<>>
       /\ PublishCalls = <<>>
       /\ StorageUnchanged

\* An action of another slice was reduced on the third snapshot, with an
\* entry stored and published.
C15_Witness ==
    /\ IsOtherAction
    /\ last.old_store = 2
    /\ dht = 2
    /\ published # <<>>

(***************************************************************************)
(* C16: the link actions                                                   *)
(***************************************************************************)

IsLinkAction == last.action_wrapper.action \in {"AddLink", "GetLinks"}

\* C16: reducing AddLink or GetLinks, whatever the store holds, the context
\* and the link, returns the old snapshot, calls no collaborator (no
\* storage write, no network get, no publish) and leaves the storage as it
\* was.
C16_LinkActionsAreNoOps ==
    IsLinkAction
    => /\ ReturnedOld
       /\ last.r.calls = <<>>
       /\ last.r.gets = <<>>
       /\ PublishCalls = <<>>
       /\ StorageUnchanged

\* AddLink was reduced on a store that holds entries, for a link on an
\* address the store does not hold, under a context without DNA.
C16_Witness ==
    /\ last.action_wrapper.action = "AddLink"
    /\ ~contains(content_storage, last.action_wrapper.link)
    /\ last.context = "NoDna"
    /\ last.old_store = 2
    /\ ReturnedOld

(***************************************************************************)
(* C17: the storage add fails                                              *)
(***************************************************************************)

\* C17: when the storage add of a reduction fails (in a system commit, an
\* application commit or the caching of a fetched entry), reduce returns
\* the old snapshot, the storage holds what it held and publish is not
\* called.
C17_AddFailureIsRejection ==
    last.r.added = "err"
    => /\ ReturnedOld
       /\ ~last.r.some
       /\ StorageUnchanged
       /\ PublishCalls = <<>>
       /\ FirstCall("publish") = 0

\* The add of an entry fetched from the network failed, on a store that
\* holds a published entry.
C17_Witness ==
    /\ IsGetEntry
    /\ last.r.got # {}
    /\ last.r.added = "err"
    /\ published # <<>>
    /\ ReturnedOld

(***************************************************************************)
(* C18: publish calls over a run                                           *)
(***************************************************************************)

\* No entry occurs twice in the entries handed to publish.
PublishedOnce(pubs) ==
    \A i, j \in 1..Len(pubs) : pubs[i] = pubs[j] => i = j

\* One step adds one publish call exactly when it is a Commit of an
\* application entry that returns a new snapshot, and none otherwise; the
\* entry published is the one committed, and was not published before.
C18_Step ==
    /\ IF /\ last'.action_wrapper.action = "Commit"
          /\ ~is_sys(last'.action_wrapper.entry.entry_type)
          /\ dht' # dht
       THEN published' = Append(published, last'.action_wrapper.entry)
       ELSE published' = published
    /\ PublishedOnce(published')

\* C18: from the empty store and over any sequence of actions, each address
\* is published at most once and the number of publish calls is the number
\* of Commit reductions of application entries that returned a new
\* snapshot (so committing a system entry S, then a publishable application
\* entry A, then A again leaves 0, 1 and 1 publish calls, the third
\* reduction returning the snapshot of the second).
C18_PublishCountsCommits == [][C18_Step]_vars

\* The end of the scenario: with S and A stored by two reductions and A
\* alone published, Commit(A) was reduced again and returned the snapshot
\* it was given.
C18_Witness ==
    /\ IsAppCommit
    /\ last.r.checked = "true"
    /\ last.old_store = 2
    /\ dht = 2
    /\ published = <<last.action_wrapper.entry>>
    /\ \E S \in Entry :
          /\ is_sys(S.entry_type)
          /\ StoredAddresses(content_storage)
               = {address(S), address(last.action_wrapper.entry)}

(***************************************************************************)
(* C19: Holochain.start and Holochain.stop                                 *)
(***************************************************************************)

\* C19: start on an inactive instance returns Ok and makes it active; start
\* on an active instance returns Err(InstanceActive) and leaves it active;
\* stop on an active instance returns Ok and makes it inactive; stop on an
\* inactive instance returns Err(InstanceNotActive) and leaves it inactive.
\* Neither touches the instance.
C19_StartStop ==
    /\ last_call.method = "start"
       => /\ active
          /\ instance = last_call.old_instance
          /\ last_call.answer = IF last_call.old_active
                                THEN <<"Err", "InstanceActive">>
                                ELSE <<"Ok", "()">>
    /\ last_call.method = "stop"
       => /\ ~active
          /\ instance = last_call.old_instance
          /\ last_call.answer = IF last_call.old_active
                                THEN <<"Ok", "()">>
                                ELSE <<"Err", "InstanceNotActive">>

\* start was called on an instance that was active and had executed a zome
\* call.
C19_Witness ==
    /\ last_call.method = "start"
    /\ last_call.old_active
    /\ active
    /\ instance.executed # <<>>

(***************************************************************************)
(* C20: Holochain.call                                                     *)
(***************************************************************************)

\* C20: call on an instance that is not active returns
\* Err(InstanceNotActive) and hands nothing to the instance, which is as it
\* was; call on an active instance hands the zome call to the instance
\* once and returns the result the instance gave, and the logger gains at
\* most the message of that execution; a refused call logs nothing; call
\* never changes active.
C20_CallNeedsActive ==
    last_call.method = "call"
    => /\ active = last_call.old_active
       /\ IF ~last_call.old_active
          THEN /\ last_call.answer = <<"Err", "InstanceNotActive">>
               /\ instance = last_call.old_instance
               /\ logger = last_call.old_logger
          ELSE /\ instance.executed =
                    Append(last_call.old_instance.executed,
                           [zome_call |-> last_call.args[1],
                            result |-> last_call.answer])
               /\ instance.nucleus_dna = last_call.old_instance.nucleus_dna
               /\ \E message \in ReturnLogs(last_call.args[1],
                                            last_call.answer) :
                      logger = last_call.old_logger \o message

\* call was refused on an instance that had been active, had executed a
\* zome call and was stopped.
C20_Witness ==
    /\ last_call.method = "call"
    /\ ~last_call.old_active
    /\ last_call.answer = <<"Err", "InstanceNotActive">>
    /\ Len(instance.executed) = 1

(***************************************************************************)
(* C21: Holochain::new                                                     *)
(***************************************************************************)

\* C21: new returns an app only when initialize_application answered Ok,
\* and that app is inactive, its nucleus initialized and holding the DNA
\* given; when the initialization fails or times out new returns
\* Err(ErrorGeneric(reason)) and there is no app: start, stop and call are
\* only ever made on an app that new returned.
C21_NewNeedsInitialization ==
    /\ last_call.method = "new"
       => /\ last_call.answer[1] = "Ok"
             => /\ last_call.args[2][1] = "Ok"
                /\ app = "instantiated"
                /\ ~active
                /\ instance.has_initialized
                /\ instance.nucleus_dna = last_call.args[1]
                /\ instance.executed = <<>>
          /\ last_call.args[2][1] = "Err"
             => /\ last_call.answer
                     = <<"Err", "ErrorGeneric", last_call.args[2][2]>>
                /\ app = "none"
          /\ last_call.answer[1] = "Err" => app = "none"
    /\ app = "none" => (instance = NoInstance /\ ~active)
    /\ last_call.method \in {"start", "stop", "call"}
       => (app = "instantiated" /\ instance.has_initialized)

\* new returned Err(ErrorGeneric("Timeout while initializing")).
C21_Witness ==
    /\ last_call.method = "new"
    /\ last_call.answer = <<"Err", "ErrorGeneric", "Timeout while initializing">>
    /\ app = "none"

(***************************************************************************)
(* C22: a new snapshot exactly when the storage grew                       *)
(***************************************************************************)

\* The addresses the last reduction added to the storage.
AddedAddresses ==
    StoredAddresses(content_storage) \ StoredAddresses(last.old_cas)

\* C22: a reduction that returns a new snapshot has added exactly one
\* address that the storage did not hold, a reduction that returns the old
\* snapshot has added none and left the storage as it was: reduce returns
\* a new snapshot if and only if the set of stored addresses strictly grew.
C22_NewSnapshotIffStorageGrew ==
    /\ ReturnedNew => Cardinality(AddedAddresses) = 1
    /\ ReturnedOld => (AddedAddresses = {} /\ StorageUnchanged)
    /\ ~panicked => (ReturnedNew <=> AddedAddresses # {})

(***************************************************************************)
(* C23: the storage never shrinks                                          *)
(***************************************************************************)

\* C23: over any sequence of actions the set of stored addresses never
\* shrinks: after every reduction the storage holds every address it held
\* before, with the content it had, and a reduction that does not return a
\* new snapshot (a rejected action, or a panic) leaves the set of stored
\* addresses exactly as it was.
C23_StorageNeverShrinks ==
    /\ \A a \in StoredAddresses(last.old_cas) :
          content_storage[a] = last.old_cas[a]
    /\ StoredAddresses(last.old_cas) \subseteq StoredAddresses(content_storage)
    /\ dht = last.old_store
       => StoredAddresses(content_storage) = StoredAddresses(last.old_cas)

\* A Commit that the commit rules rejected, reduced on a store that holds
\* two entries.
C23_Witness ==
    /\ IsCommit
    /\ last.r.checked = "false"
    /\ ~last.r.some
    /\ ReturnedOld
    /\ Cardinality(StoredAddresses(content_storage)) = 2
    /\ StoredAddresses(last.old_cas) = StoredAddresses(content_storage)

(***************************************************************************)
(* C24: network effects by action variant                                  *)
(***************************************************************************)

\* C24: a GetEntry reduction never calls publish and a Commit reduction
\* never calls the network's get; an entry a reduction publishes was not
\* stored before that reduction, so an entry cached from the network is
\* not published by a later Commit of it, which is rejected.
C24_NetworkEffectsByVariant ==
    /\ IsGetEntry => (PublishCalls = <<>> /\ FirstCall("publish") = 0)
    /\ IsCommit => (last.r.gets = <<>> /\ FirstCall("get") = 0)
    /\ \A i \in 1..Len(PublishCalls) :
          ~contains(last.old_cas, address(PublishCalls[i]))
    /\ (/\ IsCommit
        /\ contains(last.old_cas, address(last.action_wrapper.entry))
        /\ ContainsAnswered)
       => (ReturnedOld /\ PublishCalls = <<>>)

\* Commit of a publishable application entry that the storage holds and
\* that was never published (it was cached from the network): rejected,
\* and still not published.
C24_Witness ==
    /\ IsAppCommit
    /\ get_entry_type_def(last.action_wrapper.entry.entry_type) = "public"
    /\ last.r.checked = "true"
    /\ ReturnedOld
    /\ TimesPublished(last.action_wrapper.entry) = 0

====
